---- MODULE Spec2Model ----
(***************************************************************************)
(* Model of xirl/evaluators/base.py: the EvaluatorOutput record with its   *)
(* static merge and its log method, and the abstract Evaluator.            *)
(*                                                                         *)
(* A Python value that an attribute can hold is a node                     *)
(*   [tag, n, d, v]                                                        *)
(* tag = "None"    : None                                                  *)
(* tag = "float"   : the number n/d (d > 0, lowest terms)                  *)
(* tag = "nan"     : the float nan (np.mean of an empty array)             *)
(* tag = "ndarray" : the array with identity n (its content is opaque)     *)
(* tag = "list"    : the Python list whose elements are the nodes v[1..]   *)
(* isinstance(x, list) is x.tag = "list"; x is None is x.tag = "None".     *)
(***************************************************************************)
EXTENDS Integers, Sequences, FiniteSets, TLC

VARIABLES evaluator, ctor_arg, list_out, merged, self, before, logged

vars == <<evaluator, ctor_arg, list_out, merged, self, before, logged>>

(* Bounds of the model. *)
MaxList == 3
MaxLen == 2
MaxStep == 1
MaxLogs == 2

(***************************************************************************)
(* Values                                                                  *)
(***************************************************************************)
None == [tag |-> "None", n |-> 0, d |-> 1, v |-> <<>>]
NaN == [tag |-> "nan", n |-> 0, d |-> 0, v |-> <<>>]
Float(a, b) == [tag |-> "float", n |-> a, d |-> b, v |-> <<>>]
Num(a) == Float(a, 1)
Arr(id) == [tag |-> "ndarray", n |-> id, d |-> 1, v |-> <<>>]
List(s) == [tag |-> "list", n |-> 0, d |-> 1, v |-> s]

is_not_None(x) == x.tag # "None"
isinstance_list(x) == x.tag = "list"

(* The dataclass constructor EvaluatorOutput(scalar, image, video). *)
EvaluatorOutput(scalar, image, video) ==
  [scalar |-> scalar, image |-> image, video |-> video]

(***************************************************************************)
(* EvaluatorOutput._assert_same_attrs and EvaluatorOutput.merge            *)
(***************************************************************************)
(* Presence decided by truthiness: an empty list counts as absent. *)
not_none_truthy(o) ==
  << o.scalar.tag # "None" /\ ~(o.scalar.tag = "list" /\ o.scalar.v = <<>>),
     o.image.tag # "None" /\ ~(o.image.tag = "list" /\ o.image.v = <<>>),
     o.video.tag # "None" /\ ~(o.video.tag = "list" /\ o.video.v = <<>>) >>

not_none(o) ==
  << is_not_None(o.scalar), is_not_None(o.image), is_not_None(o.video) >>

(* Only the second element is compared with the first. *)
assert_same_attrs_first_pair(lo) ==
  IF Len(lo) = 0 THEN "IndexError"
  ELSE IF Len(lo) >= 2 /\ not_none(lo[2]) # not_none(lo[1])
       THEN "AssertionError"
       ELSE "none"

(* The exception _assert_same_attrs leaves with, "none" when it returns. *)
assert_same_attrs(lo) ==
  IF Len(lo) = 0 THEN "IndexError"
  ELSE LET expected == not_none(lo[1])
       IN IF \E i \in 2..Len(lo) : not_none(lo[i]) # expected
          THEN "AssertionError"
          ELSE "none"

(* The lists among the values are spliced in. *)
RECURSIVE flatten(_)
flatten(s) ==
  IF s = <<>> THEN <<>>
  ELSE (IF isinstance_list(Head(s)) THEN Head(s).v ELSE <<Head(s)>>)
       \o flatten(Tail(s))

(* The collected values, flattened. *)
collect_flat(lo, a) ==
  List(flatten([i \in 1..Len(lo) |->
                  IF a = "scalar" THEN lo[i].scalar
                  ELSE IF a = "image" THEN lo[i].image ELSE lo[i].video]))

(* [o.scalar for o in list_out], and the like. *)
collect(lo, a) ==
  List([i \in 1..Len(lo) |->
          IF a = "scalar" THEN lo[i].scalar
          ELSE IF a = "image" THEN lo[i].image ELSE lo[i].video])

(* merge with an empty input answered by an all-absent output. *)
merge_empty_ok(lo) ==
  IF Len(lo) = 0
  THEN [err |-> "none", out |-> <<EvaluatorOutput(None, None, None)>>]
  ELSE LET chk == assert_same_attrs(lo)
       IN IF chk # "none" THEN [err |-> chk, out |-> <<>>]
          ELSE [err |-> "none",
                out |-> <<EvaluatorOutput(
                   IF is_not_None(lo[1].scalar) THEN collect(lo, "scalar") ELSE None,
                   IF is_not_None(lo[1].image) THEN collect(lo, "image") ELSE None,
                   IF is_not_None(lo[1].video) THEN collect(lo, "video") ELSE None)>>]

(* The outcome of merge(list_out): the exception it leaves with ("none"    *)
(* when it returns) and the returned output (<<>> when it raises).         *)
merge(lo) ==
  LET chk == assert_same_attrs(lo)
  IN IF chk # "none" THEN [err |-> chk, out |-> <<>>]
     ELSE LET scalars == IF is_not_None(lo[1].scalar)
                         THEN collect(lo, "scalar") ELSE None
              images == IF is_not_None(lo[1].image)
                        THEN collect(lo, "image") ELSE None
              videos == IF is_not_None(lo[1].video)
                        THEN collect(lo, "video") ELSE None
          IN [err |-> "none", out |-> <<EvaluatorOutput(scalars, images, videos)>>]

(***************************************************************************)
(* np.mean                                                                 *)
(***************************************************************************)
RECURSIVE gcd(_, _)
gcd(a, b) == IF b = 0 THEN a ELSE gcd(b, a % b)

(* The float a/b, b > 0. *)
Quot(a, b) ==
  LET g == gcd(IF a < 0 THEN -a ELSE a, b)
  IN Float(a \div g, b \div g)

Ragged == <<-1>>

(* The shape np.asarray gives a value; Ragged when it has none. *)
RECURSIVE shape(_)
shape(x) ==
  IF x.tag \in {"float", "nan"} THEN <<>>
  ELSE IF x.tag # "list" THEN Ragged
  ELSE IF x.v = <<>> THEN <<0>>
  ELSE LET s1 == shape(x.v[1])
       IN IF s1 = Ragged \/ \E i \in 2..Len(x.v) : shape(x.v[i]) # s1
          THEN Ragged
          ELSE <<Len(x.v)>> \o s1

(* The numbers of a value in row-major order. *)
RECURSIVE ravel(_)
ravel(x) ==
  IF x.tag # "list" THEN <<x>>
  ELSE IF x.v = <<>> THEN <<>>
  ELSE ravel(x.v[1]) \o ravel(List(Tail(x.v)))

RECURSIVE sum_num(_)
sum_num(s) == IF s = <<>> THEN 0 ELSE Head(s).n + sum_num(Tail(s))

(* All numbers of a flat sequence have denominator den. *)
RECURSIVE scale_to(_, _)
scale_to(s, den) ==
  IF s = <<>> THEN <<>>
  ELSE <<Float(Head(s).n * (den \div Head(s).d), den)>> \o scale_to(Tail(s), den)

RECURSIVE common_den(_)
common_den(s) ==
  IF s = <<>> THEN 1
  ELSE LET r == common_den(Tail(s))
       IN (Head(s).d * r) \div gcd(Head(s).d, r)

(* The sum in place of the mean: the division by the count is missing. *)
np_sum(x) ==
  LET e == ravel(x)
  IN IF shape(x) = Ragged THEN [None EXCEPT !.tag = "raise"]
     ELSE IF e = <<>> \/ \E i \in 1..Len(e) : e[i].tag = "nan" THEN NaN
     ELSE LET den == common_den(e)
          IN Quot(sum_num(scale_to(e, den)), den)

(* np.mean(x) for a list x: a float, nan, or the tag "raise" when numpy    *)
(* rejects the value (elements of differing shape, or not numbers).        *)
np_mean(x) ==
  LET e == ravel(x)
  IN IF shape(x) = Ragged THEN [None EXCEPT !.tag = "raise"]
     ELSE IF e = <<>> \/ \E i \in 1..Len(e) : e[i].tag = "nan" THEN NaN
     ELSE LET den == common_den(e)
          IN Quot(sum_num(scale_to(e, den)), den * Len(e))

(***************************************************************************)
(* EvaluatorOutput.log                                                     *)
(***************************************************************************)
Call(op, payload, global_step, name, prefix) ==
  [op |-> op, payload |-> payload, global_step |-> global_step,
   name |-> name, prefix |-> prefix]

(* Tags count from one. *)
fan_out_one_based(op, x, global_step, name, prefix) ==
  IF ~is_not_None(x) THEN <<>>
  ELSE IF isinstance_list(x)
       THEN [i \in 1..Len(x.v) |->
               Call(op, x.v[i], global_step, name \o "_" \o ToString(i), prefix)]
       ELSE <<Call(op, x, global_step, name, prefix)>>

(* The "is not None" test is missing. *)
fan_out_unguarded(op, x, global_step, name, prefix) ==
  IF isinstance_list(x)
  THEN [i \in 1..Len(x.v) |->
          Call(op, x.v[i], global_step, name \o "_" \o ToString(i - 1), prefix)]
  ELSE <<Call(op, x, global_step, name, prefix)>>

(* for i, x in enumerate(xs): logger.<op>(x, global_step, name + f"_{i}", prefix) *)
fan_out(op, x, global_step, name, prefix) ==
  IF ~is_not_None(x) THEN <<>>
  ELSE IF isinstance_list(x)
       THEN [i \in 1..Len(x.v) |->
               Call(op, x.v[i], global_step, name \o "_" \o ToString(i - 1), prefix)]
       ELSE <<Call(op, x, global_step, name, prefix)>>

(* log with the mean kept in a local value, the record left as it was. *)
log_local_mean(o, global_step, name, prefix) ==
  LET reduce == is_not_None(o.scalar) /\ isinstance_list(o.scalar)
      m == IF reduce THEN np_mean(o.scalar) ELSE o.scalar
  IN IF m.tag = "raise"
     THEN [err |-> "ValueError", self |-> o, calls |-> <<>>]
     ELSE [err |-> "none", self |-> o,
           calls |-> (IF is_not_None(m)
                      THEN <<Call("log_scalar", m, global_step, name, prefix)>>
                      ELSE <<>>)
                     \o fan_out("log_image", o.image, global_step, name, prefix)
                     \o fan_out("log_video", o.video, global_step, name, prefix)]

(* log that drops the images and videos from the record once logged. *)
log_consume(o, global_step, name, prefix) ==
  LET reduce == is_not_None(o.scalar) /\ isinstance_list(o.scalar)
      m == IF reduce THEN np_mean(o.scalar) ELSE o.scalar
  IN IF m.tag = "raise"
     THEN [err |-> "ValueError", self |-> o, calls |-> <<>>]
     ELSE [err |-> "none",
           self |-> [o EXCEPT !.scalar = m, !.image = None, !.video = None],
           calls |-> (IF is_not_None(m)
                      THEN <<Call("log_scalar", m, global_step, name, prefix)>>
                      ELSE <<>>)
                     \o fan_out("log_image", o.image, global_step, name, prefix)
                     \o fan_out("log_video", o.video, global_step, name, prefix)]

(* The outcome of o.log(logger, global_step, name, prefix): the exception  *)
(* it leaves with, the record afterwards, and the calls made on the sink.  *)
log(o, global_step, name, prefix) ==
  LET reduce == is_not_None(o.scalar) /\ isinstance_list(o.scalar)
      m == IF reduce THEN np_mean(o.scalar) ELSE o.scalar
  IN IF m.tag = "raise"
     THEN [err |-> "ValueError", self |-> o, calls |-> <<>>]
     ELSE LET o2 == [o EXCEPT !.scalar = m]
              cs == IF is_not_None(o2.scalar)
                    THEN <<Call("log_scalar", o2.scalar, global_step, name, prefix)>>
                    ELSE <<>>
          IN [err |-> "none", self |-> o2,
              calls |-> cs \o fan_out("log_image", o2.image, global_step, name, prefix)
                           \o fan_out("log_video", o2.video, global_step, name, prefix)]

(***************************************************************************)
(* Evaluator                                                               *)
(***************************************************************************)
(* The flag is not taken from the argument. *)
Evaluator_init_true(inter_class) == [inter_class |-> TRUE]

Evaluator_init(inter_class) == [inter_class |-> inter_class]

(***************************************************************************)
(* Inputs                                                                  *)
(***************************************************************************)
Nums == {1, 2}
Arrays == {1, 2}
Names == {"acc", "acc_0"}
Prefixes == {"valid"}

SeqsUpTo(S, k) == UNION {[1..m -> S] : m \in 0..k}

(* What one evaluate call of a concrete evaluator may return. *)
UnitScalars == {None, Num(1), List(<<Num(2)>>)}
UnitImages == {None, Arr(1), List(<<>>), List(<<Arr(2)>>)}
UnitVideos == {None, Arr(1)}
UnitOutputs ==
  {EvaluatorOutput(s, i, v) : s \in UnitScalars, i \in UnitImages, v \in UnitVideos}

(* Records built directly, EvaluatorOutput(scalar=..., image=..., video=...). *)
DirectScalars ==
  {None} \cup {Num(a) : a \in Nums}
         \cup {List(s) : s \in SeqsUpTo({Num(a) : a \in Nums}, MaxLen)}
DirectImages ==
  {None} \cup {Arr(a) : a \in Arrays}
         \cup {List(s) : s \in SeqsUpTo({Arr(a) : a \in Arrays}, MaxLen)}
DirectVideos ==
  {None, Arr(1)} \cup {List(s) : s \in SeqsUpTo({Arr(1)}, MaxLen)}

(***************************************************************************)
(* State machine: a driver constructs an evaluator, then either collects   *)
(* the outputs of evaluate calls, merges them and logs the merged record,  *)
(* or logs a record that was built directly.                               *)
(***************************************************************************)
Init ==
  /\ evaluator = <<>>
  /\ ctor_arg = <<>>
  /\ list_out = <<>>
  /\ merged = <<>>
  /\ self = <<>>
  /\ before = <<>>
  /\ logged = <<>>

(* Evaluator.__init__(inter_class) *)
Construct(v) ==
  /\ evaluator = <<>>
  /\ evaluator' = <<Evaluator_init(v)>>
  /\ ctor_arg' = <<v>>
  /\ UNCHANGED <<list_out, merged, self, before, logged>>

(* One evaluate call; the driver appends what the concrete evaluator       *)
(* returned to its list.                                                   *)
Evaluate(o) ==
  /\ evaluator # <<>>
  /\ merged = <<>>
  /\ self = <<>>
  /\ Len(list_out) < MaxList
  /\ list_out' = Append(list_out, o)
  /\ UNCHANGED <<evaluator, ctor_arg, merged, self, before, logged>>

(* EvaluatorOutput.merge(list_out) *)
Merge ==
  /\ evaluator # <<>>
  /\ merged = <<>>
  /\ self = <<>>
  /\ merged' = <<merge(list_out)>>
  /\ UNCHANGED <<evaluator, ctor_arg, list_out, self, before, logged>>

(* The driver keeps the record merge returned. *)
TakeMerged ==
  /\ merged # <<>>
  /\ merged[1].err = "none"
  /\ self = <<>>
  /\ self' = merged[1].out
  /\ UNCHANGED <<evaluator, ctor_arg, list_out, merged, before, logged>>

(* EvaluatorOutput(scalar, image, video) built directly. *)
New(s, i, v) ==
  /\ evaluator # <<>>
  /\ list_out = <<>>
  /\ merged = <<>>
  /\ self = <<>>
  /\ self' = <<EvaluatorOutput(s, i, v)>>
  /\ UNCHANGED <<evaluator, ctor_arg, list_out, merged, before, logged>>

(* self.log(logger, global_step, name, prefix) *)
Log(global_step, name, prefix) ==
  /\ self # <<>>
  /\ Len(logged) < MaxLogs
  /\ LET r == log(self[1], global_step, name, prefix)
     IN /\ self' = <<r.self>>
        /\ before' = self
        /\ logged' = Append(logged,
                            [global_step |-> global_step, name |-> name,
                             prefix |-> prefix, err |-> r.err, calls |-> r.calls])
  /\ UNCHANGED <<evaluator, ctor_arg, list_out, merged>>

Next ==
  \/ \E v \in BOOLEAN : Construct(v)
  \/ \E o \in UnitOutputs : Evaluate(o)
  \/ Merge
  \/ TakeMerged
  \/ \E s \in DirectScalars, i \in DirectImages, v \in DirectVideos : New(s, i, v)
  \/ \E g \in 0..MaxStep, nm \in Names, p \in Prefixes : Log(g, nm, p)

Spec == Init /\ [][Next]_vars

(***************************************************************************)
(* Properties                                                              *)
(***************************************************************************)
Attrs == {"scalar", "image", "video"}

Attr(o, a) ==
  IF a = "scalar" THEN o.scalar ELSE IF a = "image" THEN o.image ELSE o.video

Present(o) == {a \in Attrs : Attr(o, a).tag # "None"}

SamePattern(lo) == \A i, j \in 1..Len(lo) : Present(lo[i]) = Present(lo[j])

Merged == merged # <<>>
MergeResult == merged[1]

Logged == logged # <<>>
LastLog == logged[Len(logged)]
Was == before[1]

CallsOf(cs, op) ==
  LET Test(c) == c.op = op
  IN SelectSeq(cs, Test)

HasArgs(c, l) ==
  c.global_step = l.global_step /\ c.name = l.name /\ c.prefix = l.prefix

SinkOp(a) ==
  IF a = "scalar" THEN "log_scalar"
  ELSE IF a = "image" THEN "log_image" ELSE "log_video"

FlatNumbers(x) ==
  x.tag = "list" /\ \A i \in 1..Len(x.v) : x.v[i].tag = "float"

RECURSIVE ProdDen(_)
ProdDen(s) == IF s = <<>> THEN 1 ELSE Head(s).d * ProdDen(Tail(s))

RECURSIVE SumOver(_, _)
SumOver(s, D) ==
  IF s = <<>> THEN 0 ELSE Head(s).n * (D \div Head(s).d) + SumOver(Tail(s), D)

(* p is the number (s[1] + ... + s[k]) / k. *)
IsMeanOf(p, s) ==
  /\ p.tag = "float"
  /\ p.d > 0
  /\ p.n * Len(s) * ProdDen(s) = p.d * SumOver(s, ProdDen(s))

(* C1: merge of a non-empty list whose elements share one presence pattern *)
(* returns an output in which every attribute of the pattern is the list   *)
(* of the elements' values, one per element and in input order, each value *)
(* kept as it is, and every other attribute is absent.                     *)
C1_MergeCollects ==
  (Merged /\ Len(list_out) >= 1 /\ SamePattern(list_out)) =>
     /\ MergeResult.err = "none"
     /\ Len(MergeResult.out) = 1
     /\ \A a \in Attrs :
          LET r == Attr(MergeResult.out[1], a)
          IN IF a \in Present(list_out[1])
             THEN /\ r.tag = "list"
                  /\ Len(r.v) = Len(list_out)
                  /\ \A i \in 1..Len(list_out) : r.v[i] = Attr(list_out[i], a)
             ELSE r = None

C1_Witness ==
  /\ Merged
  /\ Len(list_out) >= 2
  /\ MergeResult.err = "none"
  /\ MergeResult.out[1].scalar.tag = "list"
  /\ MergeResult.out[1].video = None
  /\ MergeResult.out[1].image.tag = "list"
  /\ MergeResult.out[1].image.v[1].tag = "ndarray"
  /\ MergeResult.out[1].image.v[2] = List(<<Arr(2)>>)

(* C2: merge of a list in which two elements, at any positions, differ in  *)
(* presence pattern fails the assertion of _assert_same_attrs (the         *)
(* InconsistentOutputError of the specification) and returns no output.    *)
C2_MergeRejectsMixed ==
  (Merged /\ Len(list_out) >= 2 /\ ~SamePattern(list_out)) =>
     /\ MergeResult.err = "AssertionError"
     /\ MergeResult.out = <<>>

C2_Witness ==
  /\ Merged
  /\ Len(list_out) = 3
  /\ Present(list_out[1]) = Present(list_out[2])
  /\ Present(list_out[3]) # Present(list_out[1])
  /\ MergeResult.err = "AssertionError"
  /\ MergeResult.out = <<>>

(* C3: log on a record whose scalar is a non-empty list of numbers makes   *)
(* exactly one log_scalar call, with the mean of the numbers and the given *)
(* global_step, name and prefix; on a record whose scalar is one number it *)
(* makes exactly one log_scalar call with that number.                     *)
C3_ScalarLogged ==
  Logged =>
    LET sc == CallsOf(LastLog.calls, "log_scalar")
    IN /\ (FlatNumbers(Was.scalar) /\ Was.scalar.v # <<>>) =>
             /\ Len(sc) = 1
             /\ IsMeanOf(sc[1].payload, Was.scalar.v)
             /\ HasArgs(sc[1], LastLog)
       /\ Was.scalar.tag = "float" =>
             /\ Len(sc) = 1
             /\ sc[1].payload = Was.scalar
             /\ HasArgs(sc[1], LastLog)

C3_Witness ==
  /\ Logged
  /\ Was.scalar = List(<<Num(1), Num(2)>>)
  /\ LastLog.name = "acc_0"
  /\ LastLog.global_step = 1
  /\ CallsOf(LastLog.calls, "log_scalar")
       = <<Call("log_scalar", Float(3, 2), 1, "acc_0", "valid")>>

(* C4: for image and for video, whatever the other holds, a log call that  *)
(* returns has made one call of that kind per element when the attribute   *)
(* is a list, the call for the element at index i (from 0, in increasing   *)
(* order) carrying that element and the tag name_i, and exactly one call   *)
(* with the tag name when it is a single value; every call carries the     *)
(* given global_step and prefix.                                           *)
C4_FanOut ==
  (Logged /\ LastLog.err = "none") =>
    \A a \in {"image", "video"} :
      LET x == Attr(Was, a)
          cs == CallsOf(LastLog.calls, SinkOp(a))
      IN /\ x.tag = "list" =>
              /\ Len(cs) = Len(x.v)
              /\ \A i \in 1..Len(x.v) :
                   /\ cs[i].payload = x.v[i]
                   /\ cs[i].name = LastLog.name \o "_" \o ToString(i - 1)
                   /\ cs[i].global_step = LastLog.global_step
                   /\ cs[i].prefix = LastLog.prefix
         /\ x.tag = "ndarray" =>
              /\ Len(cs) = 1
              /\ cs[1].payload = x
              /\ HasArgs(cs[1], LastLog)

C4_Witness ==
  /\ Logged
  /\ LastLog.err = "none"
  /\ Was.image = List(<<Arr(2), Arr(1)>>)
  /\ Was.video = Arr(1)
  /\ LastLog.name = "acc"
  /\ CallsOf(LastLog.calls, "log_image")
       = <<Call("log_image", Arr(2), 0, "acc_0", "valid"),
           Call("log_image", Arr(1), 0, "acc_1", "valid")>>
  /\ CallsOf(LastLog.calls, "log_video")
       = <<Call("log_video", Arr(1), 0, "acc", "valid")>>

(* C5: log makes no call of a kind whose attribute is absent, whatever the *)
(* other two attributes hold, and no call at all when all three are absent.*)
C5_AbsentNotLogged ==
  Logged =>
    /\ \A a \in Attrs :
         Attr(Was, a) = None => CallsOf(LastLog.calls, SinkOp(a)) = <<>>
    /\ Present(Was) = {} => LastLog.calls = <<>>

C5_Witness ==
  /\ Logged
  /\ LastLog.err = "none"
  /\ Was.scalar = None
  /\ Was.video = None
  /\ Was.image.tag = "ndarray"
  /\ Len(LastLog.calls) = 1

(* C6 as stated: merge of an empty list fails with EmptyMergeInputError    *)
(* and returns no output.                                                  *)
C6_Original ==
  (Merged /\ list_out = <<>>) =>
     /\ MergeResult.err = "EmptyMergeInputError"
     /\ MergeResult.out = <<>>

(* C6: merge of an empty list fails with the IndexError of indexing        *)
(* element 0 and returns no output, in particular no all-absent output.    *)
C6_EmptyMergeIndexError ==
  (Merged /\ list_out = <<>>) =>
     /\ MergeResult.err = "IndexError"
     /\ MergeResult.out = <<>>

C6_Witness ==
  /\ Merged
  /\ list_out = <<>>
  /\ MergeResult.err # "none"

(* C7: an evaluator constructed with inter_class = v holds v in its        *)
(* inter_class attribute from construction on, also after evaluate calls.  *)
C7_InterClassKept ==
  evaluator # <<>> => evaluator[1].inter_class = ctor_arg[1]

C7_Witness ==
  /\ evaluator # <<>>
  /\ ctor_arg = <<FALSE>>
  /\ evaluator[1].inter_class = FALSE
  /\ Len(list_out) >= 2

(* C8 as stated: after log returns, scalar, image and video are what they  *)
(* were before the call.                                                   *)
C8_Original ==
  (Logged /\ LastLog.err = "none") => self = before

(* C8: after log returns, image and video are what they were before the    *)
(* call, and so is scalar unless it was a list: then scalar is no longer a *)
(* list but the mean that the call passed to log_scalar.                   *)
C8_OnlyScalarReduced ==
  (Logged /\ LastLog.err = "none") =>
     /\ self[1].image = Was.image
     /\ self[1].video = Was.video
     /\ IF Was.scalar.tag = "list"
        THEN /\ self[1].scalar.tag \in {"float", "nan"}
             /\ CallsOf(LastLog.calls, "log_scalar")[1].payload = self[1].scalar
             /\ (FlatNumbers(Was.scalar) /\ Was.scalar.v # <<>>) =>
                   IsMeanOf(self[1].scalar, Was.scalar.v)
        ELSE self[1].scalar = Was.scalar

C8_Witness ==
  /\ Logged
  /\ LastLog.err = "none"
  /\ Was.scalar = List(<<Num(1), Num(2)>>)
  /\ self[1].scalar = Float(3, 2)
  /\ Was.image.tag = "list"
  /\ self[1].image = Was.image

(* C9: two log calls on the same record with the same global_step, name    *)
(* and prefix make the same sequence of sink calls.                        *)
C9_LogRepeatable ==
  \A i, j \in 1..Len(logged) :
    (/\ i < j
     /\ logged[i].global_step = logged[j].global_step
     /\ logged[i].name = logged[j].name
     /\ logged[i].prefix = logged[j].prefix)
      => /\ logged[i].calls = logged[j].calls
         /\ logged[i].err = logged[j].err

C9_Witness ==
  /\ Len(logged) = 2
  /\ logged[1].global_step = logged[2].global_step
  /\ logged[1].name = logged[2].name
  /\ Merged
  /\ MergeResult.err = "none"
  /\ MergeResult.out[1].scalar = List(<<Num(1), Num(1)>>)
  /\ MergeResult.out[1].image.tag = "list"
  /\ self[1].scalar = Num(1)
  /\ Len(logged[2].calls) = 3

WellTypedScalar(x) == x.tag \in {"None", "float", "nan"} \/ FlatNumbers(x)

(* C10: an empty list is present, not absent: merge accepts a list in      *)
(* which one element has image = [] and another a single array, returning  *)
(* both values in order, and log on a record with image = [] or video = [] *)
(* makes no call of that kind and does not fail.                           *)
C10_EmptyListIsPresent ==
  /\ (/\ Merged
      /\ SamePattern(list_out)
      /\ \E i, j \in 1..Len(list_out) :
           list_out[i].image = List(<<>>) /\ list_out[j].image.tag = "ndarray")
       => /\ MergeResult.err = "none"
          /\ Len(MergeResult.out) = 1
          /\ MergeResult.out[1].image.tag = "list"
          /\ \A k \in 1..Len(list_out) :
               MergeResult.out[1].image.v[k] = list_out[k].image
  /\ Logged =>
       \A a \in {"image", "video"} :
         Attr(Was, a) = List(<<>>) =>
           /\ CallsOf(LastLog.calls, SinkOp(a)) = <<>>
           /\ WellTypedScalar(Was.scalar) => LastLog.err = "none"

C10_Witness ==
  /\ Merged
  /\ Len(list_out) = 2
  /\ list_out[1].image = List(<<>>)
  /\ list_out[2].image = Arr(1)
  /\ MergeResult.err = "none"
  /\ MergeResult.out[1].image = List(<<List(<<>>), Arr(1)>>)

====
